---- MODULE Spec2Model ----
(***************************************************************************)
(* The constant model of sway-ir (sway-ir/src/constant.rs): typed          *)
(* constants, their constructors, the arena allocating get_* family, enum  *)
(* extraction and the Context-aware equality Constant::eq.                 *)
(*                                                                         *)
(* A Context owns the type registry `types` (interned structural type      *)
(* descriptions, a Type is an index into it) and the value arena `values`  *)
(* (a Value is an index into it).  The caller of the API holds the         *)
(* Constants it has built, by value, in `pool` (each with the call that    *)
(* returned it) and the Value handles it was given in `handles` (each      *)
(* with the constant it asked to wrap); `ret` is what the last call        *)
(* returned.                                                               *)
(*                                                                         *)
(* The end-to-end test harness (test/src/e2e_vm_tests/mod.rs): the cache   *)
(* of deployed contracts of a TestContext, shared by the tasks that call   *)
(* TestContext::deploy_contract, and the filtering, execution loop and     *)
(* accounting of e2e_vm_tests::run.                                        *)
(***************************************************************************)
EXTENDS Integers, Sequences, FiniteSets, TLC

VARIABLES types, values, pool, handles, ret

\* TestContext::deploy_contract: the shared map and its mutex, each task's
\* position in its call, the deployments the harness made, the results returned
VARIABLES deployed_contracts, mutex, calls, deployments, returned

\* e2e_vm_tests::run: its arguments, its position, its locals, the
\* TestContext::run calls it made and what it returned
VARIABLES filter_config, run_config, pc, discovered, tests,
          number_of_tests_executed, number_of_tests_failed, failed_tests,
          executions, run_result

irVars == <<types, values, pool, handles, ret>>
deployVars == <<deployed_contracts, mutex, calls, deployments, returned>>
runVars ==
    <<filter_config, run_config, pc, discovered, tests, number_of_tests_executed,
      number_of_tests_failed, failed_tests, executions, run_result>>
vars == <<irVars, deployVars, runVars>>

(***************************************************************************)
(* Bounds of the model.                                                    *)
(***************************************************************************)
\* entries of the type registry
MaxTypes == 5
\* constants the caller builds: those it holds plus those it allocates
MaxConstants == 2
\* elements of an array / fields of a struct handed to a constructor
MaxElems == 2
\* tasks sharing one TestContext, and deploy_contract calls they make in all
MaxTasks == 2
MaxCalls == 3
\* test descriptions discover_test_configs finds
MaxTests == 2

(***************************************************************************)
(* Type registry (irtype.rs, not part of the visible sources).             *)
(* A description is a record; a Type handle is its index in the registry.  *)
(***************************************************************************)
TypeContent(kind, n, elem, fields) ==
    [kind |-> kind, n |-> n, elem |-> elem, fields |-> fields]

TUnit == TypeContent("Unit", 0, 0, <<>>)
TBool == TypeContent("Bool", 0, 0, <<>>)
TB256 == TypeContent("B256", 0, 0, <<>>)
TUint(width) == TypeContent("Uint", width, 0, <<>>)
TString(len) == TypeContent("String", len, 0, <<>>)
TArray(elem, len) == TypeContent("Array", len, elem, <<>>)
TStruct(fields) == TypeContent("Struct", 0, 0, fields)

\* the handle a registry holds for a description (0: none)
get_type(reg, t) ==
    IF \E i \in 1..Len(reg) : reg[i] = t
    THEN CHOOSE i \in 1..Len(reg) : reg[i] = t
    ELSE 0

\* intern a description: the existing handle, or a fresh slot
get_or_create_unique_type(reg, t) ==
    IF get_type(reg, t) # 0
    THEN [reg |-> reg, ty |-> get_type(reg, t)]
    ELSE [reg |-> Append(reg, t), ty |-> Len(reg) + 1]

\* the primitives read an immutable Context: they exist from construction
Type_get_unit(reg) == get_type(reg, TUnit)
Type_get_bool(reg) == get_type(reg, TBool)
Type_get_b256(reg) == get_type(reg, TB256)
Type_new_uint(reg, width) == get_or_create_unique_type(reg, TUint(width))
Type_new_string_array(reg, len) == get_or_create_unique_type(reg, TString(len))
Type_new_array(reg, elm_ty, len) == get_or_create_unique_type(reg, TArray(elm_ty, len))
Type_new_struct(reg, field_tys) == get_or_create_unique_type(reg, TStruct(field_tys))

\* types are interned: equality is handle equality
Type_eq(reg, a, b) == a = b

is_uint(reg, ty) == reg[ty].kind = "Uint"
is_array(reg, ty) == reg[ty].kind = "Array"
is_struct(reg, ty) == reg[ty].kind = "Struct"
\* a two-field struct of a discriminant and a payload
is_enum(reg, ty) ==
    /\ is_struct(reg, ty)
    /\ Len(reg[ty].fields) = 2
    /\ is_uint(reg, reg[ty].fields[1])

(***************************************************************************)
(* U256 (sway_types::u256, a big unsigned integer, not part of the visible *)
(* sources): the little-endian limbs of the number without high zero       *)
(* limbs.  A limb is 16 bits wide here so that a limb is a TLC integer.    *)
(***************************************************************************)
LimbBase == 2 ^ 16
ByteBase == 2 ^ 8

RECURSIVE Normalize(_)
Normalize(limbs) ==
    IF limbs = <<>> THEN <<>>
    ELSE IF limbs[Len(limbs)] = 0 THEN Normalize(SubSeq(limbs, 1, Len(limbs) - 1))
    ELSE limbs

\* n.into() / U256::from(n) for a machine word n
RECURSIVE U256_from(_)
U256_from(n) ==
    IF n = 0 THEN <<>> ELSE <<n % LimbBase>> \o U256_from(n \div LimbBase)

\* U256::from_be_bytes: the most significant byte comes first
U256_from_be_bytes(bytes) ==
    Normalize([j \in 1..(Len(bytes) \div 2) |->
        bytes[Len(bytes) - 2 * (j - 1)] + ByteBase * bytes[Len(bytes) - 2 * (j - 1) - 1]])

\* U256::to_be_bytes: the 32 bytes of the number, the most significant first
U256_to_be_bytes(w) ==
    [k \in 1..32 |->
        LET p == 32 - k
            limb == IF p \div 2 + 1 <= Len(w) THEN w[p \div 2 + 1] ELSE 0
        IN  IF p % 2 = 0 THEN limb % ByteBase ELSE limb \div ByteBase]

(***************************************************************************)
(* ConstantValue and Constant (constant.rs).                               *)
(***************************************************************************)
ConstantValue(tag, b, n, wide, bytes, elems) ==
    [tag |-> tag, b |-> b, n |-> n, wide |-> wide, bytes |-> bytes, elems |-> elems]

Undef == ConstantValue("Undef", FALSE, 0, <<>>, <<>>, <<>>)
Unit == ConstantValue("Unit", FALSE, 0, <<>>, <<>>, <<>>)
Bool(b) == ConstantValue("Bool", b, 0, <<>>, <<>>, <<>>)
Uint(n) == ConstantValue("Uint", FALSE, n, <<>>, <<>>, <<>>)
U256(w) == ConstantValue("U256", FALSE, 0, w, <<>>, <<>>)
B256(w) == ConstantValue("B256", FALSE, 0, w, <<>>, <<>>)
String(bytes) == ConstantValue("String", FALSE, 0, <<>>, bytes, <<>>)
Array(elems) == ConstantValue("Array", FALSE, 0, <<>>, <<>>, elems)
Struct(elems) == ConstantValue("Struct", FALSE, 0, <<>>, <<>>, elems)

Constant(ty, value) == [ty |-> ty, value |-> value]

\* a constructor returns the constant and the registry it leaves behind
Built(reg, c) == [reg |-> reg, c |-> c]

new_unit(reg) == Built(reg, Constant(Type_get_unit(reg), Unit))

new_bool(reg, b) == Built(reg, Constant(Type_get_bool(reg), Bool(b)))

\* new_uint without the 256-bit arm: every width stored as Uint
new_uint_narrow(reg, nbits, n) ==
    LET t == Type_new_uint(reg, nbits)
    IN  Built(t.reg, Constant(t.ty, Uint(n)))

\* new_uint with the 256-bit arm taken for every width
new_uint_wide(reg, nbits, n) ==
    LET t == Type_new_uint(reg, nbits)
    IN  Built(t.reg, Constant(t.ty, U256(U256_from(n))))

new_uint(reg, nbits, n) ==
    LET t == Type_new_uint(reg, nbits)
    IN  Built(t.reg, Constant(t.ty, IF nbits = 256 THEN U256(U256_from(n)) ELSE Uint(n)))

new_uint256(reg, n) ==
    LET t == Type_new_uint(reg, 256)
    IN  Built(t.reg, Constant(t.ty, U256(n)))

\* new_b256 reading its bytes least significant first
new_b256_le(reg, bytes) ==
    Built(reg, Constant(Type_get_b256(reg),
        B256(Normalize([j \in 1..(Len(bytes) \div 2) |->
            bytes[2 * j - 1] + ByteBase * bytes[2 * j]]))))

new_b256(reg, bytes) ==
    Built(reg, Constant(Type_get_b256(reg), B256(U256_from_be_bytes(bytes))))

\* new_string asking for the string type of length 0 whatever the string is
new_string_unsized(reg, string) ==
    LET t == Type_new_string_array(reg, 0)
    IN  Built(t.reg, Constant(t.ty, String(string)))

new_string(reg, string) ==
    LET t == Type_new_string_array(reg, Len(string))
    IN  Built(t.reg, Constant(t.ty, String(string)))

new_array(reg, elm_ty, elems) ==
    LET t == Type_new_array(reg, elm_ty, Len(elems))
    IN  Built(t.reg, Constant(t.ty, Array(elems)))

new_struct(reg, field_tys, fields) ==
    LET t == Type_new_struct(reg, field_tys)
    IN  Built(t.reg, Constant(t.ty, Struct(fields)))

get_undef(ty) == Constant(ty, Undef)

(***************************************************************************)
(* Constant::eq.  zip stops at the shorter of the two element lists.       *)
(***************************************************************************)
Min(a, b) == IF a < b THEN a ELSE b

\* Constant::eq as a derived, structural PartialEq would compare: Undef = Undef
Constant_eq_derived(reg, self, other) ==
    Type_eq(reg, self.ty, other.ty) /\ self.value = other.value

\* Constant::eq with `any` written for `all` in the element-wise arm
RECURSIVE Constant_eq_any(_, _, _)
Constant_eq_any(reg, self, other) ==
    /\ Type_eq(reg, self.ty, other.ty)
    /\ LET l == self.value
           r == other.value
       IN  CASE l.tag = "Undef" \/ r.tag = "Undef" -> FALSE
             [] l.tag \in {"Array", "Struct"} /\ r.tag = l.tag ->
                    \E i \in 1..Min(Len(l.elems), Len(r.elems)) :
                        Constant_eq_any(reg, l.elems[i], r.elems[i])
             [] OTHER -> l = r

\* Constant::eq comparing the element lists of composites structurally
Constant_eq_shallow(reg, self, other) ==
    /\ Type_eq(reg, self.ty, other.ty)
    /\ self.value.tag # "Undef"
    /\ other.value.tag # "Undef"
    /\ self.value = other.value

\* Constant::eq without the comparison of the two types
RECURSIVE Constant_eq_untyped(_, _, _)
Constant_eq_untyped(reg, self, other) ==
    LET l == self.value
        r == other.value
    IN  CASE l.tag = "Undef" \/ r.tag = "Undef" -> FALSE
          [] l.tag \in {"Array", "Struct"} /\ r.tag = l.tag ->
                 \A i \in 1..Min(Len(l.elems), Len(r.elems)) :
                     Constant_eq_untyped(reg, l.elems[i], r.elems[i])
          [] OTHER -> l = r

RECURSIVE Constant_eq(_, _, _)
Constant_eq(reg, self, other) ==
    /\ Type_eq(reg, self.ty, other.ty)
    /\ LET l == self.value
           r == other.value
       IN  CASE l.tag = "Undef" \/ r.tag = "Undef" -> FALSE
             [] l.tag = "Unit" /\ r.tag = "Unit" -> TRUE
             [] l.tag = "Bool" /\ r.tag = "Bool" -> l.b = r.b
             [] l.tag = "Uint" /\ r.tag = "Uint" -> l.n = r.n
             [] l.tag = "U256" /\ r.tag = "U256" -> l.wide = r.wide
             [] l.tag = "B256" /\ r.tag = "B256" -> l.wide = r.wide
             [] l.tag = "String" /\ r.tag = "String" -> l.bytes = r.bytes
             [] \/ l.tag = "Array" /\ r.tag = "Array"
                \/ l.tag = "Struct" /\ r.tag = "Struct" ->
                    \A i \in 1..Min(Len(l.elems), Len(r.elems)) :
                        Constant_eq(reg, l.elems[i], r.elems[i])
             [] OTHER -> FALSE

(***************************************************************************)
(* Constant::extract_enum_tag_and_value: <<>> is None, <<tag, value>> is   *)
(* Some((tag, value)).                                                     *)
(***************************************************************************)
\* extract_enum_tag_and_value without the is_enum test
extract_enum_tag_and_value_any_struct(reg, self) ==
    IF self.value.tag = "Struct" /\ Len(self.value.elems) = 2
    THEN <<self.value.elems[1], self.value.elems[2]>>
    ELSE <<>>

extract_enum_tag_and_value(reg, self) ==
    IF ~is_enum(reg, self.ty) THEN <<>>
    ELSE IF self.value.tag = "Struct" /\ Len(self.value.elems) = 2
         THEN <<self.value.elems[1], self.value.elems[2]>>
         ELSE <<>>

(***************************************************************************)
(* The value arena (value.rs, not part of the visible sources) and the     *)
(* get_* family.  A failed assertion allocates nothing.                    *)
(***************************************************************************)
Allocated(reg, vals, handle) == [reg |-> reg, values |-> vals, handle |-> handle, ok |-> TRUE]
Panicked(reg, vals) == [reg |-> reg, values |-> vals, handle |-> 0, ok |-> FALSE]

Value_new_constant(reg, vals, c) == Allocated(reg, Append(vals, c), Len(vals) + 1)

\* get_unit storing its constant into the slot allocated last
get_unit_in_place(reg, vals) ==
    LET new_const == new_unit(reg)
    IN  IF vals = <<>> THEN Value_new_constant(new_const.reg, vals, new_const.c)
        ELSE Allocated(new_const.reg, [vals EXCEPT ![Len(vals)] = new_const.c], Len(vals))

get_unit(reg, vals) ==
    LET new_const == new_unit(reg) IN Value_new_constant(new_const.reg, vals, new_const.c)

\* get_bool handing out the slot of an equal constant already in the arena
get_bool_interned(reg, vals, value) ==
    LET new_const == new_bool(reg, value)
    IN  IF \E h \in 1..Len(vals) : vals[h] = new_const.c
        THEN Allocated(new_const.reg, vals, CHOOSE h \in 1..Len(vals) : vals[h] = new_const.c)
        ELSE Value_new_constant(new_const.reg, vals, new_const.c)

get_bool(reg, vals, value) ==
    LET new_const == new_bool(reg, value) IN Value_new_constant(new_const.reg, vals, new_const.c)

get_uint(reg, vals, nbits, value) ==
    LET new_const == new_uint(reg, nbits, value)
    IN  Value_new_constant(new_const.reg, vals, new_const.c)

get_uint256(reg, vals, value) ==
    LET new_const == new_uint256(reg, value)
    IN  Value_new_constant(new_const.reg, vals, new_const.c)

get_b256(reg, vals, value) ==
    LET new_const == new_b256(reg, value)
    IN  Value_new_constant(new_const.reg, vals, new_const.c)

\* get_string allocating its constant twice
get_string_twice(reg, vals, value) ==
    LET new_const == new_string(reg, value)
    IN  Value_new_constant(new_const.reg, Append(vals, new_const.c), new_const.c)

get_string(reg, vals, value) ==
    LET new_const == new_string(reg, value)
    IN  Value_new_constant(new_const.reg, vals, new_const.c)

\* get_array without its assertion
get_array_unchecked(reg, vals, value) == Value_new_constant(reg, vals, value)

get_array(reg, vals, value) ==
    IF ~is_array(reg, value.ty) THEN Panicked(reg, vals)
    ELSE Value_new_constant(reg, vals, value)

get_struct(reg, vals, value) ==
    IF ~is_struct(reg, value.ty) THEN Panicked(reg, vals)
    ELSE Value_new_constant(reg, vals, value)

(***************************************************************************)
(* The inputs the caller draws its arguments from.                         *)
(***************************************************************************)
Widths == {8, 64, 256}
Words == {0, 65537}
Wides == {U256_from(n) : n \in Words} \cup {<<0, 0, 0, 0, 1>>}
Bytes32 == {[i \in 1..32 |-> 0], [i \in 1..32 |-> i - 1]}
Strings == {<<>>, <<97>>, <<98>>}

Handles == 1..Len(types)
SeqsOver(S) == UNION {[1..k -> S] : k \in 0..MaxElems}

\* what an argument list is made of: the constants the caller holds and the
\* boolean literals it builds in place (neither new_bool nor get_undef
\* changes the Context)
Literals ==
    {new_bool(types, b).c : b \in BOOLEAN} \cup {get_undef(Type_get_bool(types))}
Held == {e.c : e \in pool}
Operands == Held \cup Literals
\* the types the caller names: those of the constants at hand
TypesAtHand == {c.ty : c \in Operands}

Returned(op, ok, args, out, handle, flag) ==
    [op |-> op, ok |-> ok, args |-> args, out |-> out, handle |-> handle, flag |-> flag]

\* a fresh Context
ContextNew ==
    /\ types = <<TUnit, TBool, TB256>>
    /\ values = <<>>
    /\ pool = {}
    /\ handles = <<>>
    /\ ret = Returned("Context::new", TRUE, <<>>, <<>>, 0, FALSE)

Tasks == 1..MaxTasks
NoPath == ""

\* a fresh TestContext: nothing deployed, the mutex free, no call under way
TestContextNew ==
    /\ deployed_contracts = <<>>
    /\ mutex = 0
    /\ calls = [t \in Tasks |-> [at |-> "idle", contract_path |-> NoPath, made |-> 0]]
    /\ deployments = <<>>
    /\ returned = {}

NoFilter ==
    [skip_until |-> <<>>, include |-> <<>>, exclude |-> <<>>,
     abi_only |-> FALSE, contract_only |-> FALSE, first_only |-> FALSE]

\* e2e_vm_tests::run has not been called
RunNotCalled ==
    /\ filter_config = NoFilter
    /\ run_config = [build_target |-> "fuel"]
    /\ pc = "idle"
    /\ discovered = <<>>
    /\ tests = <<>>
    /\ number_of_tests_executed = 0
    /\ number_of_tests_failed = 0
    /\ failed_tests = <<>>
    /\ executions = <<>>
    /\ run_result = "none"

Init == ContextNew /\ TestContextNew /\ RunNotCalled

\* nothing runs after a failed assertion; the caller builds MaxConstants constants
HasRoom == ret.ok /\ Cardinality(pool) + Len(values) < MaxConstants

\* the caller keeps the constant a constructor returned
Keep(op, args, built) ==
    /\ Len(built.reg) <= MaxTypes
    /\ types' = built.reg
    /\ pool' = pool \cup {[by |-> op, c |-> built.c, with |-> args]}
    /\ ret' = Returned(op, TRUE, args, <<built.c>>, 0, FALSE)
    /\ UNCHANGED <<values, handles, deployVars, runVars>>

\* the outcome of a get_* call asked to wrap c: a handle, or a failed assertion
Got(op, args, c, r) ==
    /\ Len(r.reg) <= MaxTypes
    /\ types' = r.reg
    /\ values' = r.values
    /\ handles' = IF r.ok THEN Append(handles, [value |-> r.handle, c |-> c]) ELSE handles
    /\ ret' = Returned(op, r.ok, args, <<>>, r.handle, FALSE)
    /\ UNCHANGED <<pool, deployVars, runVars>>

NewUnit == HasRoom /\ Keep("new_unit", <<>>, new_unit(types))

NewBool == HasRoom /\ \E b \in BOOLEAN : Keep("new_bool", <<b>>, new_bool(types, b))

NewUint == HasRoom /\ \E nbits \in Widths, n \in Words :
    Keep("new_uint", <<nbits, n>>, new_uint(types, nbits, n))

NewUint256 == HasRoom /\ \E n \in Wides : Keep("new_uint256", <<n>>, new_uint256(types, n))

NewB256 == HasRoom /\ \E bytes \in Bytes32 : Keep("new_b256", <<bytes>>, new_b256(types, bytes))

NewString == HasRoom /\ \E string \in Strings :
    Keep("new_string", <<string>>, new_string(types, string))

NewArray == HasRoom /\ \E elm_ty \in TypesAtHand, elems \in SeqsOver(Operands) :
    Keep("new_array", <<elm_ty, elems>>, new_array(types, elm_ty, elems))

NewStruct == HasRoom /\ \E field_tys \in SeqsOver(TypesAtHand), fields \in SeqsOver(Operands) :
    Keep("new_struct", <<field_tys, fields>>, new_struct(types, field_tys, fields))

GetUndef == HasRoom /\ \E ty \in Handles : Keep("get_undef", <<ty>>, Built(types, get_undef(ty)))

GetUnit == HasRoom /\ Got("get_unit", <<>>, new_unit(types).c, get_unit(types, values))

GetBool == HasRoom /\ \E value \in BOOLEAN :
    Got("get_bool", <<value>>, new_bool(types, value).c, get_bool(types, values, value))

GetUint == HasRoom /\ \E nbits \in Widths, value \in Words :
    Got("get_uint", <<nbits, value>>, new_uint(types, nbits, value).c,
        get_uint(types, values, nbits, value))

GetUint256 == HasRoom /\ \E value \in Wides :
    Got("get_uint256", <<value>>, new_uint256(types, value).c,
        get_uint256(types, values, value))

GetB256 == HasRoom /\ \E value \in Bytes32 :
    Got("get_b256", <<value>>, new_b256(types, value).c, get_b256(types, values, value))

GetString == HasRoom /\ \E value \in Strings :
    Got("get_string", <<value>>, new_string(types, value).c,
        get_string(types, values, value))

\* the caller hands over a copy of a constant it holds
GetArray == HasRoom /\ \E value \in Held :
    Got("get_array", <<value>>, value, get_array(types, values, value))

GetStruct == HasRoom /\ \E value \in Held :
    Got("get_struct", <<value>>, value, get_struct(types, values, value))

ExtractEnumTagAndValue == ret.ok /\ \E self \in Held :
    /\ ret' = Returned("extract_enum_tag_and_value", TRUE, <<self>>,
                       extract_enum_tag_and_value(types, self), 0, FALSE)
    /\ UNCHANGED <<types, values, pool, handles, deployVars, runVars>>

Eq == ret.ok /\ \E self \in pool, other \in pool :
    /\ ret' = Returned("eq", TRUE, <<self, other>>, <<>>, 0,
                       Constant_eq(types, self.c, other.c))
    /\ UNCHANGED <<types, values, pool, handles, deployVars, runVars>>

Next ==
    \/ NewUnit \/ NewBool \/ NewUint \/ NewUint256 \/ NewB256 \/ NewString
    \/ NewArray \/ NewStruct \/ GetUndef
    \/ GetUnit \/ GetBool \/ GetUint \/ GetUint256 \/ GetB256 \/ GetString
    \/ GetArray \/ GetStruct
    \/ ExtractEnumTagAndValue
    \/ Eq

Spec == Init /\ [][Next]_vars

(***************************************************************************)
(* TestContext::deploy_contract (mod.rs).  A call waits for the mutex of   *)
(* deployed_contracts, looks its path up and either returns the cached id  *)
(* or awaits harness::deploy_contract with the guard still held; the guard *)
(* is dropped when the call returns.  A step is what a task does between   *)
(* two await points.  The harness deploys onto a node outside the program: *)
(* a deployment fails or yields some ContractId.                           *)
(***************************************************************************)
Paths == {"contract_a", "contract_b"}
ContractIds == {"0xa1", "0xa2"}
Failed == "Err"
DeployOutcomes == ContractIds \cup {Failed}

\* HashMap::insert
Inserted(map, key, value) ==
    [k \in DOMAIN map \cup {key} |-> IF k = key THEN value ELSE map[k]]

\* deploy_contract deploying whether the path is in the map or not
Lookup_never(map, contract_path) == <<>>

\* deployed_contracts.get(&contract_path): <<>> is None
Lookup(map, contract_path) ==
    IF contract_path \in DOMAIN map THEN <<map[contract_path]>> ELSE <<>>

Result(t, contract_path, outcome) ==
    [task |-> t, contract_path |-> contract_path, outcome |-> outcome]

\* the deploy_contract calls made so far by the tasks 1..n
RECURSIVE CallsMade(_)
CallsMade(n) == IF n = 0 THEN 0 ELSE calls[n].made + CallsMade(n - 1)

\* a task calls deploy_contract and awaits the lock
DeployContract(t) ==
    /\ calls[t].at = "idle"
    /\ CallsMade(MaxTasks) < MaxCalls
    /\ \E contract_path \in Paths :
           calls' = [calls EXCEPT ![t] = [at |-> "lock", contract_path |-> contract_path,
                                           made |-> @.made + 1]]
    /\ UNCHANGED <<deployed_contracts, mutex, deployments, returned>>
    /\ UNCHANGED <<irVars, runVars>>

\* the lock is granted: a cached id is returned at once (the guard is
\* dropped with the return), otherwise the deployment is awaited under the lock
Lock(t) ==
    /\ calls[t].at = "lock"
    /\ mutex = 0
    /\ LET contract_path == calls[t].contract_path
           contract_id == Lookup(deployed_contracts, contract_path)
       IN  IF contract_id # <<>>
           THEN /\ returned' = returned \cup {Result(t, contract_path, contract_id[1])}
                /\ calls' = [calls EXCEPT ![t].at = "idle"]
                /\ UNCHANGED mutex
           ELSE /\ mutex' = t
                /\ calls' = [calls EXCEPT ![t].at = "deploy"]
                /\ UNCHANGED returned
    /\ UNCHANGED <<deployed_contracts, deployments>>
    /\ UNCHANGED <<irVars, runVars>>

\* harness::deploy_contract completes: `?` returns its error and inserts
\* nothing, a ContractId is inserted and returned
Deployed(t) ==
    /\ calls[t].at = "deploy"
    /\ mutex = t
    /\ \E outcome \in DeployOutcomes :
           LET contract_path == calls[t].contract_path
           IN  /\ deployments' = Append(deployments,
                                        [contract_path |-> contract_path, outcome |-> outcome])
               /\ deployed_contracts' =
                      IF outcome = Failed THEN deployed_contracts
                      ELSE Inserted(deployed_contracts, contract_path, outcome)
               /\ returned' = returned \cup {Result(t, contract_path, outcome)}
    /\ mutex' = 0
    /\ calls' = [calls EXCEPT ![t].at = "idle"]
    /\ UNCHANGED <<irVars, runVars>>

NextDeploy == \E t \in Tasks : DeployContract(t) \/ Lock(t) \/ Deployed(t)

SpecDeploy == Init /\ [][NextDeploy]_vars

(***************************************************************************)
(* e2e_vm_tests::run (mod.rs): discovery, the filters, the execution loop  *)
(* and the result.  A test is named by its place in the order of           *)
(* discovery; a regex is the set of names it matches; None is <<>> and     *)
(* Some(x) is <<x>>.                                                       *)
(***************************************************************************)
BuildTargets == {"fuel", "evm"}

\* what a test.toml declares: category, validate_abi, supported_targets
TestKinds ==
    {[category |-> "Compiles", validate_abi |-> TRUE, supported_targets |-> BuildTargets],
     [category |-> "RunsWithContract", validate_abi |-> FALSE, supported_targets |-> {"fuel"}],
     [category |-> "Disabled", validate_abi |-> TRUE, supported_targets |-> BuildTargets],
     [category |-> "Compiles", validate_abi |-> FALSE, supported_targets |-> {"evm"}]}

TestDescription(name, kind) ==
    [name |-> name, category |-> kind.category, validate_abi |-> kind.validate_abi,
     supported_targets |-> kind.supported_targets]

\* the test lists discover_test_configs can return
TestLists ==
    UNION {{[i \in 1..k |-> TestDescription(i, kinds[i])] : kinds \in [1..k -> TestKinds]} :
              k \in 0..MaxTests}

Regexes == {{1}, {2}}
OptionalRegexes == {<<>>} \cup {<<rx>> : rx \in Regexes}
FilterConfigs ==
    [skip_until : OptionalRegexes, include : OptionalRegexes, exclude : OptionalRegexes,
     abi_only : BOOLEAN, contract_only : BOOLEAN, first_only : BOOLEAN]
RunConfigs == [build_target : BuildTargets]

is_match(rx, name) == name \in rx

\* the skip_until closure: drop every test before the first one that matches
SkipUntil(v, rx) ==
    LET hits == {i \in 1..Len(v) : is_match(rx, v[i].name)}
    IN  IF hits = {} THEN <<>>
        ELSE SubSeq(v, CHOOSE i \in hits : \A j \in hits : i <= j, Len(v))

\* the filter on the category with disabled tests let through
Enabled_all(v) == v

\* tests.retained(|t| t.category != TestCategory::Disabled)
Enabled(v) == SelectSeq(v, LAMBDA t : t.category # "Disabled")

\* the filters of run, in the order of the code
Filtered(found, fc) ==
    LET skipped == IF fc.skip_until = <<>> THEN found ELSE SkipUntil(found, fc.skip_until[1])
        enabled == Enabled(skipped)
        included == IF fc.include = <<>> THEN enabled
                    ELSE SelectSeq(enabled, LAMBDA t : is_match(fc.include[1], t.name))
        excluded == IF fc.exclude = <<>> THEN included
                    ELSE SelectSeq(included, LAMBDA t : ~is_match(fc.exclude[1], t.name))
        abi == IF fc.abi_only THEN SelectSeq(excluded, LAMBDA t : t.validate_abi)
               ELSE excluded
        contract == IF fc.contract_only
                    THEN SelectSeq(abi, LAMBDA t : t.category = "RunsWithContract")
                    ELSE abi
    IN  IF fc.first_only /\ contract # <<>> THEN <<Head(contract)>> ELSE contract

\* run is called
Run ==
    /\ pc = "idle"
    /\ \E fc \in FilterConfigs, rc \in RunConfigs :
           /\ filter_config' = fc
           /\ run_config' = rc
    /\ pc' = "discover"
    /\ UNCHANGED <<discovered, tests, number_of_tests_executed, number_of_tests_failed,
                   failed_tests, executions, run_result>>
    /\ UNCHANGED <<irVars, deployVars>>

\* discover_test_configs()? fails and run returns its error
DiscoverFailed ==
    /\ pc = "discover"
    /\ run_result' = "Err"
    /\ pc' = "returned"
    /\ UNCHANGED <<filter_config, run_config, discovered, tests, number_of_tests_executed,
                   number_of_tests_failed, failed_tests, executions>>
    /\ UNCHANGED <<irVars, deployVars>>

\* discover_test_configs()? returns the tests, which are filtered
Discover ==
    /\ pc = "discover"
    /\ \E found \in TestLists :
           /\ discovered' = <<found>>
           /\ tests' = Filtered(found, filter_config)
    /\ pc' = "loop"
    /\ UNCHANGED <<filter_config, run_config, number_of_tests_executed,
                   number_of_tests_failed, failed_tests, executions, run_result>>
    /\ UNCHANGED <<irVars, deployVars>>

Supported(test) == run_config.build_target \in test.supported_targets

\* a test that does not support the build target: continue
Skip ==
    /\ pc = "loop"
    /\ tests # <<>>
    /\ ~Supported(Head(tests))
    /\ tests' = Tail(tests)
    /\ UNCHANGED <<filter_config, run_config, pc, discovered, number_of_tests_executed,
                   number_of_tests_failed, failed_tests, executions, run_result>>
    /\ UNCHANGED <<irVars, deployVars>>

\* context.run(test, ..).await returns Ok or Err
Execute ==
    /\ pc = "loop"
    /\ tests # <<>>
    /\ Supported(Head(tests))
    /\ \E result \in {"Ok", "Err"} :
           /\ executions' = Append(executions, [test |-> Head(tests), result |-> result])
           /\ number_of_tests_failed' =
                  IF result = "Err" THEN number_of_tests_failed + 1 ELSE number_of_tests_failed
           /\ failed_tests' =
                  IF result = "Err" THEN Append(failed_tests, Head(tests).name) ELSE failed_tests
    /\ number_of_tests_executed' = number_of_tests_executed + 1
    /\ tests' = Tail(tests)
    /\ UNCHANGED <<filter_config, run_config, pc, discovered, run_result>>
    /\ UNCHANGED <<irVars, deployVars>>

\* context.run(test, ..).await panics: run does not return
Panic ==
    /\ pc = "loop"
    /\ tests # <<>>
    /\ Supported(Head(tests))
    /\ executions' = Append(executions, [test |-> Head(tests), result |-> "panic"])
    /\ pc' = "panicked"
    /\ UNCHANGED <<filter_config, run_config, discovered, tests, number_of_tests_executed,
                   number_of_tests_failed, failed_tests, run_result>>
    /\ UNCHANGED <<irVars, deployVars>>

\* the loop is over: Err if a test failed, Ok otherwise
Return ==
    /\ pc = "loop"
    /\ tests = <<>>
    /\ run_result' = IF number_of_tests_failed # 0 THEN "Err" ELSE "Ok"
    /\ pc' = "returned"
    /\ UNCHANGED <<filter_config, run_config, discovered, tests, number_of_tests_executed,
                   number_of_tests_failed, failed_tests, executions>>
    /\ UNCHANGED <<irVars, deployVars>>

NextRun == Run \/ DiscoverFailed \/ Discover \/ Skip \/ Execute \/ Panic \/ Return

SpecRun == Init /\ [][NextRun]_vars

(***************************************************************************)
(* Properties.                                                             *)
(***************************************************************************)
IsUndef(c) == c.value.tag = "Undef"
IsComposite(c) == c.value.tag \in {"Array", "Struct"}
Called(op) == ret.op = op

\* C1: Undef irreflexivity.  A call of Constant::eq in which either operand
\* has the value Undef returns false, whatever the other operand is: Undef
\* against itself, against another Undef, against a concrete constant of the
\* same type, in either argument order.
C1_UndefIrreflexive ==
    Called("eq") =>
        ((IsUndef(ret.args[1].c) \/ IsUndef(ret.args[2].c)) => ~ret.flag)

\* an Undef of some type has been compared with itself
C1_Witness ==
    /\ Called("eq")
    /\ IsUndef(ret.args[1].c)
    /\ ret.args[2].c = ret.args[1].c
    /\ ~ret.flag

\* the operands of the last Constant::eq call
EqSelf == ret.args[1].c
EqOther == ret.args[2].c
Elems(c) == c.value.elems
SameShape(a, b) ==
    /\ IsComposite(a)
    /\ b.value.tag = a.value.tag
    /\ Type_eq(types, a.ty, b.ty)
    /\ Len(Elems(a)) = Len(Elems(b))

RECURSIVE ContainsUndef(_)
ContainsUndef(c) ==
    \/ IsUndef(c)
    \/ IsComposite(c) /\ \E i \in 1..Len(Elems(c)) : ContainsUndef(Elems(c)[i])

\* C3: nested Undef.  A call of Constant::eq in which either operand is an
\* array or struct constant holding an Undef at any nesting depth returns
\* false.
C3_NestedUndef ==
    Called("eq") =>
        (((IsComposite(EqSelf) /\ ContainsUndef(EqSelf))
            \/ (IsComposite(EqOther) /\ ContainsUndef(EqOther))) => ~ret.flag)

\* C4: U256 / Uint(256) equivalence.  For every machine word n, the constant
\* new_uint(ctx, 256, n) and the constant new_uint256(ctx, U256::from(n))
\* have equal types and compare equal under Constant::eq.
C4_U256Equivalence ==
    Called("eq") =>
        \A n \in Words :
            (/\ ret.args[1].by = "new_uint"
             /\ ret.args[1].with = <<256, n>>
             /\ ret.args[2].by = "new_uint256"
             /\ ret.args[2].with = <<U256_from(n)>>)
                => (Type_eq(types, EqSelf.ty, EqOther.ty) /\ ret.flag)

\* a two-limb word built both ways has been compared and found equal
C4_Witness ==
    /\ Called("eq")
    /\ ret.args[1].by = "new_uint"
    /\ ret.args[1].with = <<256, 65537>>
    /\ ret.args[2].by = "new_uint256"
    /\ ret.args[2].with = <<U256_from(65537)>>
    /\ ret.flag

\* C5: non-interning of values.  The handles the get_* calls have returned
\* are pairwise distinct, also when the constants they were asked to wrap are
\* equal; and when the constants two handles were created from compare equal
\* under Constant::eq, so do the constants retrieved through the handles.
C5_NonInterning ==
    \A i, j \in 1..Len(handles) :
        /\ i # j => handles[i].value # handles[j].value
        /\ Constant_eq(types, handles[i].c, handles[j].c)
               => Constant_eq(types, values[handles[i].value], values[handles[j].value])

\* two get_* calls wrapped equal constants and returned different handles
C5_Witness ==
    /\ Len(handles) = 2
    /\ Constant_eq(types, handles[1].c, handles[2].c)
    /\ handles[1].value # handles[2].value
    /\ Constant_eq(types, values[handles[1].value], values[handles[2].value])

\* the precondition of the last get_array / get_struct call on its argument
HandOffAllowed(r) ==
    IF r.op = "get_array" THEN is_array(types, r.args[1].ty)
    ELSE is_struct(types, r.args[1].ty)

\* C6: get_array / get_struct precondition.  A get_array call with a constant
\* whose type is no array type, and a get_struct call with a constant whose
\* type is no struct type, fail their assertion: no Value is allocated and
\* none is returned.  When the precondition holds, exactly one new Value is
\* allocated, it wraps the constant supplied, and its handle is returned.
C6_HandOffPrecondition ==
    [][(ret'.op \in {"get_array", "get_struct"} /\ ret' # ret) =>
          IF HandOffAllowed(ret')
          THEN /\ ret'.ok
               /\ values' = Append(values, ret'.args[1])
               /\ ret'.handle = Len(values')
               /\ handles' = Append(handles, [value |-> ret'.handle, c |-> ret'.args[1]])
          ELSE /\ ~ret'.ok
               /\ ret'.handle = 0
               /\ values' = values
               /\ handles' = handles]_vars

\* get_array was handed a struct constant and failed its assertion
C6_Witness ==
    /\ Called("get_array")
    /\ ret.args[1].value.tag = "Struct"
    /\ is_struct(types, ret.args[1].ty)
    /\ ~ret.ok
    /\ values = <<>>

\* the argument of the last extract_enum_tag_and_value call
ExtractSelf == ret.args[1]
IsPair(c) == c.value.tag = "Struct" /\ Len(Elems(c)) = 2

\* C7: enum shape extraction.  extract_enum_tag_and_value returns
\* Some((field 0, field 1)) for a constant whose type satisfies is_enum and
\* whose value is a two-element Struct, and None for every constant whose
\* type does not satisfy is_enum, a two-field struct constant included.
C7_EnumExtraction ==
    Called("extract_enum_tag_and_value") =>
        /\ (is_enum(types, ExtractSelf.ty) /\ IsPair(ExtractSelf))
               => ret.out = <<Elems(ExtractSelf)[1], Elems(ExtractSelf)[2]>>
        /\ ~is_enum(types, ExtractSelf.ty) => ret.out = <<>>

\* a (tag, payload) struct over an enum-shaped type gave Some((tag, payload))
C7_Witness ==
    /\ Called("extract_enum_tag_and_value")
    /\ is_enum(types, ExtractSelf.ty)
    /\ IsPair(ExtractSelf)
    /\ Elems(ExtractSelf)[1].value.tag = "Uint"
    /\ ret.out = <<Elems(ExtractSelf)[1], Elems(ExtractSelf)[2]>>

\* C8: a constant whose type is enum-shaped but whose value is not a
\* two-element struct is treated by extract_enum_tag_and_value as an internal
\* invariant violation, not answered with an ordinary None; no constant the
\* constructors return reaches it in that shape.
C8_EnumShapeViolationRaised ==
    Called("extract_enum_tag_and_value") =>
        ((is_enum(types, ExtractSelf.ty) /\ ~IsPair(ExtractSelf)) => ~ret.ok)

\* the shape a constant's type records for its value
ShapeMatches(reg, c) ==
    LET t == reg[c.ty]
    IN  CASE c.value.tag = "String" -> t.kind = "String" /\ Len(c.value.bytes) = t.n
          [] c.value.tag = "Array" ->
                 /\ t.kind = "Array"
                 /\ Len(Elems(c)) = t.n
                 /\ \A i \in 1..Len(Elems(c)) : Type_eq(reg, Elems(c)[i].ty, t.elem)
          [] c.value.tag = "Struct" ->
                 /\ t.kind = "Struct"
                 /\ Len(Elems(c)) = Len(t.fields)
                 /\ \A i \in 1..Len(Elems(c)) : Type_eq(reg, Elems(c)[i].ty, t.fields[i])
          [] OTHER -> TRUE

\* C9: shape invariant.  Every constant new_array, new_struct or new_string
\* returned has as many elements (bytes) as its type records, each of the
\* element (field) type its type records.
C9_ShapeInvariant ==
    \A e \in pool :
        e.by \in {"new_array", "new_struct", "new_string"} => ShapeMatches(types, e.c)

\* C10: a new_struct call whose field count differs from the length of its
\* field-type list fails an assertion instead of returning a Constant.
C10_FieldCountAsserted ==
    Called("new_struct") => (Len(ret.args[1]) # Len(ret.args[2]) => ~ret.ok)

\* payloads of every variant, for a constant written down field by field
Payloads ==
    {Undef, Unit, Bool(TRUE), Uint(0), U256(<<>>), B256(<<>>), String(<<>>),
     Array(<<>>), Struct(<<>>)}

\* C11: type equality first.  A call of Constant::eq on two constants whose
\* types differ returns false whatever the payloads are, and so does a call
\* on two constants of equal types whose payloads are of different variants;
\* the latter also for constants written down field by field with one type
\* and payloads of two different variants (Array against Struct, Uint
\* against U256, ...).
C11_TypeEqualityFirst ==
    /\ Called("eq") =>
           /\ ~Type_eq(types, EqSelf.ty, EqOther.ty) => ~ret.flag
           /\ EqSelf.value.tag # EqOther.value.tag => ~ret.flag
    /\ \A ty \in Handles : \A l \in Payloads, r \in Payloads :
           l.tag # r.tag => ~Constant_eq(types, Constant(ty, l), Constant(ty, r))

\* the same number as an 8-bit and as a 64-bit integer compared unequal
C11_Witness ==
    /\ Called("eq")
    /\ EqSelf.value.tag = "Uint"
    /\ EqSelf.value = EqOther.value
    /\ types[EqSelf.ty] = TUint(8)
    /\ types[EqOther.ty] = TUint(64)
    /\ ~ret.flag

\* C12: new_uint width rule.  Every constant new_uint(ctx, width, n) returned
\* stores n widened as a U256 when width = 256 and as Uint(n) for every other
\* width, and its type is the unsigned-integer type of that width.
C12_NewUintWidthRule ==
    \A e \in pool :
        e.by = "new_uint" =>
            LET nbits == e.with[1]
                n == e.with[2]
            IN  /\ (e.c.value.tag = "U256") = (nbits = 256)
                /\ nbits = 256 => e.c.value = U256(U256_from(n))
                /\ nbits # 256 => e.c.value = Uint(n)
                /\ types[e.c.ty] = TUint(nbits)

\* the same two-limb word was stored wide for width 256 and narrow for width 64
C12_Witness ==
    /\ \E e \in pool :
           /\ e.by = "new_uint" /\ e.with = <<256, 65537>>
           /\ e.c.value = U256(<<1, 1>>)
    /\ \E e \in pool :
           /\ e.by = "new_uint" /\ e.with = <<64, 65537>>
           /\ e.c.value = Uint(65537)

\* C13: Value immutability.  No call of this subsystem changes a Value that
\* is already allocated: through every step the arena keeps each of its
\* handles, and the constant (type and payload) retrieved through a handle
\* stays the one it was allocated for.
C13_ValueImmutability ==
    [][/\ Len(values') >= Len(values)
       /\ \A h \in 1..Len(values) : values'[h] = values[h]]_vars

\* a Value allocated earlier is still the constant it was allocated for after
\* a later comparison of constants
C13_Witness ==
    /\ Len(values) = 1
    /\ values[handles[1].value] = handles[1].c
    /\ Called("eq")

NewOps ==
    {"new_unit", "new_bool", "new_uint", "new_uint256", "new_b256", "new_string",
     "new_array", "new_struct"}
GetOps == {"get_unit", "get_bool", "get_uint", "get_uint256", "get_b256", "get_string"}

\* the constant the new_* constructor of the same name returns for a get_* call
Corresponding(reg, op, args) ==
    CASE op = "get_unit" -> new_unit(reg).c
      [] op = "get_bool" -> new_bool(reg, args[1]).c
      [] op = "get_uint" -> new_uint(reg, args[1], args[2]).c
      [] op = "get_uint256" -> new_uint256(reg, args[1]).c
      [] op = "get_b256" -> new_b256(reg, args[1]).c
      [] op = "get_string" -> new_string(reg, args[1]).c

\* C14: constructor purity / frame.  A call of a new_* constructor or of
\* get_undef returns a Constant and leaves the value arena as it was; a call
\* of get_unit, get_bool, get_uint, get_uint256, get_b256 or get_string
\* allocates exactly one Value, which wraps the constant the new_*
\* constructor of the same name returns for the same arguments, and returns
\* its handle.
C14_ConstructorFrame ==
    [][/\ (ret' # ret /\ ret'.op \in NewOps \cup {"get_undef"}) =>
              /\ values' = values
              /\ Len(ret'.out) = 1
       /\ (ret' # ret /\ ret'.op \in GetOps) =>
              /\ ret'.ok
              /\ values' = Append(values, Corresponding(types, ret'.op, ret'.args))
              /\ ret'.handle = Len(values')]_vars

\* get_string allocated one Value for a one-byte string next to a Value
\* already in the arena
C14_Witness ==
    /\ Called("get_string")
    /\ ret.handle = 2
    /\ Len(values) = 2
    /\ values[2].value = String(ret.args[1])
    /\ types[values[2].ty] = TString(1)
    /\ values[1] # values[2]

\* C15: B256 byte-order fidelity.  Every constant new_b256(ctx, bytes)
\* returned holds the number whose 32 big-endian bytes are the input bytes in
\* the same order, and a call of Constant::eq on two new_b256 constants
\* returns true exactly when their input bytes are identical.
C15_B256ByteOrder ==
    /\ \A e \in pool :
           e.by = "new_b256" =>
               /\ e.c.value.tag = "B256"
               /\ U256_to_be_bytes(e.c.value.wide) = e.with[1]
    /\ (Called("eq") /\ ret.args[1].by = "new_b256" /\ ret.args[2].by = "new_b256") =>
           ret.flag = (ret.args[1].with[1] = ret.args[2].with[1])

\* the bytes 0x00 .. 0x1f read back in the same order, and the constant built
\* from them compared unequal to the one built from 32 zero bytes
C15_Witness ==
    /\ Called("eq")
    /\ ret.args[1].by = "new_b256"
    /\ ret.args[2].by = "new_b256"
    /\ ret.args[1].with[1] = [i \in 1..32 |-> i - 1]
    /\ U256_to_be_bytes(EqSelf.value.wide) = [i \in 1..32 |-> i - 1]
    /\ ret.args[2].with[1] = [i \in 1..32 |-> 0]
    /\ ~ret.flag

\* the structural description of the type a constructor call asks for
Requested(e) ==
    CASE e.by = "new_unit" -> TUnit
      [] e.by = "new_bool" -> TBool
      [] e.by = "new_b256" -> TB256
      [] e.by = "new_uint" -> TUint(e.with[1])
      [] e.by = "new_uint256" -> TUint(256)
      [] e.by = "new_string" -> TString(Len(e.with[1]))
      [] e.by = "new_array" -> TArray(e.with[1], Len(e.with[2]))
      [] e.by = "new_struct" -> TStruct(e.with[1])
Constructed == {e \in pool : e.by \in NewOps}

\* C16: type interning.  After any sequence of constructor calls on one
\* Context the registry holds no structural description twice, every
\* constant a constructor returned carries the handle of the description the
\* call asked for, and two such constants carry identical Type handles
\* exactly when the descriptions asked for are equal; two new_string
\* constants carry the same type exactly when their byte lengths are equal.
C16_TypeInterning ==
    /\ \A a \in Handles, b \in Handles : types[a] = types[b] => a = b
    /\ \A e \in Constructed : types[e.c.ty] = Requested(e)
    /\ \A e1 \in Constructed, e2 \in Constructed :
           /\ Type_eq(types, e1.c.ty, e2.c.ty) = (Requested(e1) = Requested(e2))
           /\ (e1.by = "new_string" /\ e2.by = "new_string") =>
                  Type_eq(types, e1.c.ty, e2.c.ty) = (Len(e1.with[1]) = Len(e2.with[1]))

\* two different strings of one length carry one and the same type handle
C16_Witness ==
    \E e1 \in pool, e2 \in pool :
        /\ e1.by = "new_string" /\ e2.by = "new_string"
        /\ e1.with[1] # e2.with[1]
        /\ Len(e1.with[1]) = Len(e2.with[1])
        /\ Type_eq(types, e1.c.ty, e2.c.ty)

\* C17: composite equality respects length.  A call of Constant::eq on two
\* Array constants, or on two Struct constants, of equal types returns true
\* only if the two element lists have the same length; in particular a
\* constant whose element list is a strict prefix of the other's is not
\* equal to it.
C17_EqRespectsLength ==
    (/\ Called("eq")
     /\ IsComposite(EqSelf)
     /\ EqOther.value.tag = EqSelf.value.tag
     /\ Type_eq(types, EqSelf.ty, EqOther.ty)
     /\ ret.flag) => Len(Elems(EqSelf)) = Len(Elems(EqOther))

\* C18: Constant::eq is symmetric and is reflexive exactly on Undef-free
\* constants.  A call eq(ctx, a, b) returns what eq(ctx, b, a) returns, and
\* a call eq(ctx, c, c) returns true exactly when c holds no Undef at any
\* nesting depth.
C18_SymmetricReflexive ==
    Called("eq") =>
        /\ ret.flag = Constant_eq(types, EqOther, EqSelf)
        /\ EqSelf = EqOther => (ret.flag = ~ContainsUndef(EqSelf))

\* a composite holding an Undef inside a nested composite compared unequal
\* to itself
C18_Witness ==
    /\ Called("eq")
    /\ EqSelf = EqOther
    /\ IsComposite(EqSelf)
    /\ \E i \in 1..Len(Elems(EqSelf)) :
           /\ IsComposite(Elems(EqSelf)[i])
           /\ ContainsUndef(Elems(EqSelf)[i])
    /\ ~ret.flag

\* the successful deployments of a path the harness made
Successes(contract_path) ==
    {i \in 1..Len(deployments) :
        /\ deployments[i].contract_path = contract_path
        /\ deployments[i].outcome # Failed}

\* C19: deployed-contract cache.  In every interleaving of deploy_contract
\* calls by the tasks sharing one TestContext, harness::deploy_contract
\* succeeds at most once for each contract path, all calls that return a
\* ContractId for a path return the same one, and deployed_contracts holds
\* exactly the paths deployed successfully, each with the id of that
\* deployment: a failed deployment inserts nothing.
C19_DeployedContractCache ==
    /\ \A contract_path \in Paths : Cardinality(Successes(contract_path)) <= 1
    /\ \A r1 \in returned, r2 \in returned :
           (/\ r1.contract_path = r2.contract_path
            /\ r1.outcome # Failed
            /\ r2.outcome # Failed) => r1.outcome = r2.outcome
    /\ DOMAIN deployed_contracts = {p \in Paths : Successes(p) # {}}
    /\ \A p \in DOMAIN deployed_contracts :
           \A i \in Successes(p) : deployments[i].outcome = deployed_contracts[p]

\* a deployment of a path failed and a later one succeeded; both tasks were
\* returned its id, one from the cache, while the other path stayed out of
\* the map
C19_Witness ==
    \E p \in Paths, id \in ContractIds :
        /\ \E i \in 1..Len(deployments) :
               /\ deployments[i] = [contract_path |-> p, outcome |-> Failed]
               /\ \E j \in (i + 1)..Len(deployments) :
                      deployments[j] = [contract_path |-> p, outcome |-> id]
        /\ DOMAIN deployed_contracts = {p}
        /\ \A t \in Tasks : Result(t, p, id) \in returned

\* the tests discover_test_configs returned
Discovered == IF discovered = <<>> THEN <<>> ELSE discovered[1]
DiscoveryFailed == pc = "returned" /\ discovered = <<>>

\* the test passes every filter of filter_config but first_only
PassesFilters(i) ==
    LET t == Discovered[i]
        fc == filter_config
    IN  /\ fc.skip_until # <<>> =>
               \E j \in 1..i : is_match(fc.skip_until[1], Discovered[j].name)
        /\ t.category # "Disabled"
        /\ fc.include # <<>> => is_match(fc.include[1], t.name)
        /\ fc.exclude # <<>> => ~is_match(fc.exclude[1], t.name)
        /\ fc.abi_only => t.validate_abi
        /\ fc.contract_only => t.category = "RunsWithContract"

\* the test is neither disabled nor filtered out, and supports the build target
Eligible(i) ==
    /\ PassesFilters(i)
    /\ filter_config.first_only => \A j \in 1..(i - 1) : ~PassesFilters(j)
    /\ run_config.build_target \in Discovered[i].supported_targets

Completed == {k \in 1..Len(executions) : executions[k].result # "panic"}
Errors == {k \in 1..Len(executions) : executions[k].result = "Err"}

\* no disabled, filtered or unsupported test is executed or counted, and the
\* counters count the executed and the failed tests
Accounting ==
    /\ \A k \in 1..Len(executions) :
           LET t == executions[k].test
           IN  /\ t.name \in 1..Len(Discovered)
               /\ Discovered[t.name] = t
               /\ Eligible(t.name)
               /\ \A l \in 1..(k - 1) : executions[l].test.name < t.name
    /\ number_of_tests_executed = Cardinality(Completed)
    /\ number_of_tests_failed = Cardinality(Errors)
    /\ number_of_tests_failed = Len(failed_tests)
    /\ \A k \in Errors : \E f \in 1..Len(failed_tests) : failed_tests[f] = executions[k].test.name
    /\ number_of_tests_failed <= number_of_tests_executed

\* C20: test-run accounting.  Tests of category Disabled, tests removed by
\* the filters and tests that do not support the build target are never
\* executed nor counted; number_of_tests_failed is the number of executed
\* tests whose TestContext::run returned Err and the length of failed_tests,
\* and is at most number_of_tests_executed; run returns Err exactly when
\* number_of_tests_failed is not 0, so it returns Ok when no test was
\* executed.
C20_TestRunAccounting ==
    /\ Accounting
    /\ pc = "returned" =>
           /\ (run_result = "Err") = (number_of_tests_failed # 0)
           /\ number_of_tests_executed = 0 => run_result = "Ok"

\* C20 as it holds: the accounting is as stated, and run returns Err exactly
\* when discover_test_configs failed or number_of_tests_failed is not 0; it
\* returns Ok when discovery succeeded and no test was executed.
C20_TestRunAccountingAfterDiscovery ==
    /\ Accounting
    /\ pc = "returned" =>
           /\ (run_result = "Err") = (DiscoveryFailed \/ number_of_tests_failed # 0)
           /\ (~DiscoveryFailed /\ number_of_tests_executed = 0) => run_result = "Ok"
    /\ DiscoveryFailed => (number_of_tests_executed = 0 /\ executions = <<>>)

\* of two tests discovered the disabled one was not run and the other one
\* failed: one executed, one failed, run returned Err
C20_Witness ==
    /\ pc = "returned"
    /\ Len(Discovered) = 2
    /\ Discovered[1].category = "Disabled"
    /\ Len(executions) = 1
    /\ executions[1].test = Discovered[2]
    /\ number_of_tests_executed = 1
    /\ number_of_tests_failed = 1
    /\ failed_tests = <<2>>
    /\ run_result = "Err"

====
